---- MODULE Spec2Model ----
(***************************************************************************)
(* Model of api/employees.py: the name normaliser _extract_name, the       *)
(* paginated fetcher fetch_all_employees and the two presenters            *)
(* (/api/employees, /api/employees/csv).                                   *)
(*                                                                         *)
(* Python values are tagged records; a string is a sequence of             *)
(* one-character strings so that strip() and CSV quoting can be computed.  *)
(***************************************************************************)
EXTENDS FiniteSets, Integers, Sequences, TLC

VARIABLES
    emp,        \* _extract_name: the argument of the call under study
    name_ret,   \* _extract_name: its outcome (NotCalled before the call)
    upstream,   \* the upstream API: URL -> its answer (Undecided until first asked)
    pc,         \* position of the request being handled
    ep,         \* endpoint of the request being handled
    url,        \* fetch_all_employees: url
    employees,  \* fetch_all_employees: employees (the accumulator)
    calls,      \* URLs passed to requests.get by this request, in order
    resps,      \* responses whose page has been processed by this request, in order
    resp,       \* fetch_all_employees: resp
    page_items, \* fetch_all_employees: page_items of the last page
    exc,        \* the exception propagating out of the handler
    buf,        \* iter_csv: buf (io.StringIO)
    it,         \* iter_csv: number of records already consumed by the for loop
    out         \* endpoint -> the HTTP response the caller has received so far

vars == <<emp, name_ret, upstream, pc, ep, url, employees, calls, resps, resp,
          page_items, exc, buf, it, out>>

nameVars == <<emp, name_ret>>
fetchVars == <<upstream, pc, ep, url, employees, calls, resps, resp,
               page_items, exc, buf, it, out>>

----------------------------------------------------------------------------
(* Python / JSON values *)

Null == [t |-> "null"]
Str(s) == [t |-> "str", v |-> s]
Num(n) == [t |-> "num", v |-> n]
List(l) == [t |-> "list", v |-> l]
Dict(d) == [t |-> "dict", v |-> d]

EmptyStr == Str(<< >>)

\* isinstance(x, dict)
IsDict(x) == x.t = "dict"

\* isinstance(x, list)
IsList(x) == x.t = "list"

\* Python truth value testing, as used by `if x:` / `while x:` / `x and y`
Truthy(x) ==
    CASE x.t = "null" -> FALSE
      [] x.t = "str"  -> Len(x.v) > 0
      [] x.t = "num"  -> x.v # 0
      [] x.t = "list" -> Len(x.v) > 0
      [] x.t = "dict" -> DOMAIN x.v # {}

\* dict.get(k, default)
DictGet(d, k, default) == IF k \in DOMAIN d.v THEN d.v[k] ELSE default

\* str.strip(): leading and trailing whitespace removed
IsSpace(c) == c \in {" ", "\t", "\n", "\r"}

RECURSIVE LStrip(_)
LStrip(s) == IF s # << >> /\ IsSpace(Head(s)) THEN LStrip(Tail(s)) ELSE s

RECURSIVE RStrip(_)
RStrip(s) ==
    IF s # << >> /\ IsSpace(s[Len(s)]) THEN RStrip(SubSeq(s, 1, Len(s) - 1)) ELSE s

Strip(s) == RStrip(LStrip(s))

\* outcome of a call: a returned value or a raised exception
Return(v) == [kind |-> "return", v |-> v]
Raise(type) == [kind |-> "raise", type |-> type]

\* a + b with a str left operand: concatenation, TypeError otherwise
Concat(a, b) ==
    IF a.kind = "raise" THEN a
    ELSE IF a.v.t = "str" /\ b.t = "str" THEN Return(Str(a.v.v \o b.v))
    ELSE Raise("TypeError")

----------------------------------------------------------------------------
(* _extract_name *)

ExtractNameSwapped(e) ==
    IF ~IsDict(e) THEN Return(EmptyStr)
    ELSE IF Truthy(DictGet(e, "name", Null)) THEN Return(DictGet(e, "name", Null))
    ELSE IF Truthy(DictGet(e, "full_name", Null)) THEN Return(DictGet(e, "full_name", Null))
    ELSE IF Truthy(DictGet(e, "first_name", Null)) THEN
        LET sum == Concat(Concat(Return(DictGet(e, "first_name", Null)), Str(<<" ">>)),
                          DictGet(e, "last_name", EmptyStr))
        IN IF sum.kind = "raise" THEN sum ELSE Return(Str(Strip(sum.v.v)))
    ELSE Return(DictGet(e, "id", EmptyStr))

ExtractName(e) ==
    IF ~IsDict(e) THEN Return(EmptyStr)
    ELSE IF Truthy(DictGet(e, "full_name", Null)) THEN Return(DictGet(e, "full_name", Null))
    ELSE IF Truthy(DictGet(e, "name", Null)) THEN Return(DictGet(e, "name", Null))
    ELSE IF Truthy(DictGet(e, "first_name", Null)) THEN
        LET sum == Concat(Concat(Return(DictGet(e, "first_name", Null)), Str(<<" ">>)),
                          DictGet(e, "last_name", EmptyStr))
        IN IF sum.kind = "raise" THEN sum ELSE Return(Str(Strip(sum.v.v)))
    ELSE Return(DictGet(e, "id", EmptyStr))

----------------------------------------------------------------------------
(* The upstream API and what requests.get gives back *)

\* WORKABLE_BASE, abbreviated: the text of a URL is never inspected
WORKABLE_BASE == <<"b">>

\* the page URLs the upstream knows
URLs == {WORKABLE_BASE, <<"p", "2">>, <<"p", "3">>}

\* requests.get raised a requests.RequestException carrying this text
Exc(text) == [kind |-> "exc", text |-> text]

\* requests.get returned a response
Http(status, body) == [kind |-> "http", status_code |-> status, body |-> body]

\* a response body: JSON text standing for the value `data`, or text that is not JSON
Json(data) == [json |-> TRUE, data |-> data]
NotJson == [json |-> FALSE]

\* upstream items
ItemA == Dict([id |-> Str(<<"1">>), full_name |-> Str(<<"A">>)])
ItemNoId == Dict([name |-> Str(<<"B", ",", "\"">>)])
ItemFirstLast == Dict([id |-> Str(<<"2">>), first_name |-> Str(<<"C">>), last_name |-> Str(<<"D">>)])
ItemNotDict == Str(<<"x">>)
ItemNullLast == Dict([id |-> Str(<<"3">>), first_name |-> Str(<<"C">>), last_name |-> Null])

\* pages the fetch loop gets through
GoodEmployees ==
    { List(<< >>), List(<<ItemA, ItemNoId>>), List(<<ItemA, ItemA>>),
      List(<<ItemFirstLast>>), Null }

\* pages written so that line 66-72 raises
BadEmployees == { List(<<ItemA, ItemNotDict>>), List(<<ItemNullLast>>), Num(5) }

Pagings ==
    { Null, Dict(<< >>), Dict([next |-> Null]), Str(<<"x">>), Dict([next |-> Num(5)]) }
    \cup { Dict([next |-> Str(u)]) : u \in URLs }

Bodies ==
    { Json(Dict([employees |-> e, paging |-> p])) : e \in GoodEmployees, p \in Pagings }
    \cup { Json(Dict([employees |-> e])) : e \in GoodEmployees \cup BadEmployees }
    \cup { Json(Dict([paging |-> p])) : p \in Pagings }
    \cup { Json(List(<<ItemNoId, ItemA>>)), Json(List(<< >>)), Json(Str(<<"x">>)),
           Json(Null), NotJson }

\* everything one requests.get may produce
Responses ==
    { Exc("timed out") }
    \cup { Http(s, NotJson) : s \in {401, 404, 500} }
    \cup { Http(200, b) : b \in Bodies }
    \cup { Http(304, NotJson), Http(201, Json(List(<<ItemA>>))) }

Undecided == [kind |-> "undecided"]

\* requests.Response.ok: raise_for_status() raises only for 400 <= status < 600
Ok(r) == ~(400 <= r.status_code /\ r.status_code < 600)

\* fastapi.HTTPException(status_code, detail)
HTTPException(status, detail) ==
    [type |-> "HTTPException", status_code |-> status, detail |-> detail]

\* any other exception type
PyException(type) == [type |-> type]

NoExc == [type |-> "none"]

\* lines 47-56: what follows the answer r of requests.get
StatusCheck(r) ==
    IF r.kind = "exc" THEN HTTPException(502, "Network error: " \o r.text)
    ELSE IF r.status_code = 401 THEN HTTPException(401, "Unauthorized: invalid token")
    ELSE IF ~Ok(r) THEN HTTPException(502, "Upstream error: " \o ToString(r.status_code))
    ELSE NoExc

\* line 57: resp.json()
RespJson(r) == IF r.body.json THEN Return(r.body.data) ELSE Raise("JSONDecodeError")

\* lines 59-65: the page's item list
PageItemsNoBareList(data) ==
    LET p0 == IF IsDict(data) THEN DictGet(data, "employees", Null) ELSE Null
    IN  IF ~Truthy(p0) THEN List(<< >>) ELSE p0

PageItems(data) ==
    LET p0 == IF IsDict(data) THEN DictGet(data, "employees", Null) ELSE Null
        p1 == IF p0 = Null /\ IsList(data) THEN data ELSE p0
    IN  IF ~Truthy(p1) THEN List(<< >>) ELSE p1

\* the keys of a dict in iteration order
KeySeq(d) == CHOOSE s \in [1..Cardinality(DOMAIN d) -> DOMAIN d] :
                 \A k \in DOMAIN d : \E i \in DOMAIN s : s[i] = k

\* line 66: `for e in page_items` - the items iterated, or TypeError
Iterate(x) ==
    CASE x.t = "list" -> Return(x.v)
      [] x.t = "str"  -> Return([i \in 1..Len(x.v) |-> Str(<<x.v[i]>>)])
      [] x.t = "dict" -> Return([i \in 1..Cardinality(DOMAIN x.v) |-> Str(KeySeq(x.v)[i])])
      [] OTHER        -> Raise("TypeError")

\* lines 67-72: one record per item, appended to the accumulator; an exception
\* leaves the records appended before it in the list
RECURSIVE AppendRecordsSkipNoId(_, _)
AppendRecordsSkipNoId(items, acc) ==
    IF items = << >> THEN [kind |-> "return", acc |-> acc]
    ELSE LET e == Head(items)
         IN  IF ~IsDict(e) THEN [kind |-> "raise", type |-> "AttributeError", acc |-> acc]
             ELSE LET n == ExtractName(e)
                  IN  IF n.kind = "raise"
                      THEN [kind |-> "raise", type |-> n.type, acc |-> acc]
                      ELSE IF "id" \notin DOMAIN e.v
                           THEN AppendRecordsSkipNoId(Tail(items), acc)
                      ELSE AppendRecordsSkipNoId(Tail(items),
                               Append(acc, [id |-> DictGet(e, "id", Null), name |-> n.v]))

RECURSIVE AppendRecords(_, _)
AppendRecords(items, acc) ==
    IF items = << >> THEN [kind |-> "return", acc |-> acc]
    ELSE LET e == Head(items)
         IN  IF ~IsDict(e) THEN [kind |-> "raise", type |-> "AttributeError", acc |-> acc]
             ELSE LET n == ExtractName(e)
                  IN  IF n.kind = "raise"
                      THEN [kind |-> "raise", type |-> n.type, acc |-> acc]
                      ELSE AppendRecords(Tail(items),
                               Append(acc, [id |-> DictGet(e, "id", Null), name |-> n.v]))

\* lines 73-74: the next page's URL
NextUrlFromBody(data) ==
    IF IsDict(data) THEN DictGet(data, "next", Null) ELSE Null

NextUrl(data) ==
    LET paging == IF IsDict(data) THEN DictGet(data, "paging", Null) ELSE Null
    IN  IF Truthy(paging) /\ IsDict(paging) THEN DictGet(paging, "next", Null) ELSE Null

----------------------------------------------------------------------------
(* csv.writer (excel dialect) and io.StringIO, as iter_csv uses them *)

\* str(n) of a natural number
Digits == <<"0", "1", "2", "3", "4", "5", "6", "7", "8", "9">>

RECURSIVE DecStr(_)
DecStr(n) == IF n < 10 THEN <<Digits[n + 1]>>
             ELSE DecStr(n \div 10) \o <<Digits[(n % 10) + 1]>>

\* the text csv.writer writes for a field: None is "", a str is itself, else str(x)
CsvText(x) ==
    CASE x.t = "null" -> << >>
      [] x.t = "str"  -> x.v
      [] x.t = "num"  -> DecStr(x.v)

\* QUOTE_MINIMAL: a field holding the delimiter, the quote character or a line
\* terminator character is quoted
NeedsQuote(s) == \E i \in DOMAIN s : s[i] \in {",", "\"", "\r", "\n"}

\* doublequote: every quote character inside a quoted field is written twice
RECURSIVE DoubleQuotes(_)
DoubleQuotes(s) ==
    IF s = << >> THEN << >>
    ELSE (IF Head(s) = "\"" THEN <<"\"", "\"">> ELSE <<Head(s)>>) \o DoubleQuotes(Tail(s))

CsvField(s) == IF NeedsQuote(s) THEN <<"\"">> \o DoubleQuotes(s) \o <<"\"">> ELSE s

RECURSIVE CsvJoin(_)
CsvJoin(fields) ==
    IF Len(fields) = 0 THEN << >>
    ELSE IF Len(fields) = 1 THEN CsvField(fields[1])
    ELSE CsvField(fields[1]) \o <<",">> \o CsvJoin(Tail(fields))

\* the line writer.writerow(row) writes; a lone empty field is written as ""
CsvLine(row) ==
    LET texts == [i \in DOMAIN row |-> CsvText(row[i])]
    IN  (IF Len(texts) = 1 /\ texts[1] = << >> THEN <<"\"", "\"">> ELSE CsvJoin(texts))
        \o <<"\r", "\n">>

\* io.StringIO(): text and stream position
StringIO == [data |-> << >>, pos |-> 0]

\* StringIO.write(s): a position past the end is first filled with NUL characters
Write(b, s) ==
    LET padded == b.data \o [i \in 1..(b.pos - Len(b.data)) |-> "NUL"]
        before == SubSeq(padded, 1, b.pos)
        after  == SubSeq(padded, b.pos + Len(s) + 1, Len(padded))
    IN  [data |-> before \o s \o after, pos |-> b.pos + Len(s)]

\* StringIO.truncate(n): the position is not moved
Truncate(b, n) == [b EXCEPT !.data = SubSeq(b.data, 1, IF n < Len(b.data) THEN n ELSE Len(b.data))]

\* StringIO.seek(n)
Seek(b, n) == [b EXCEPT !.pos = n]

\* lines 98-99 and 103-104: buf.truncate(0); buf.seek(0)
ResetNoSeek(b) == Truncate(b, 0)

Reset(b) == Seek(Truncate(b, 0), 0)

\* the code point of a character (ASCII)
Ord(c) ==
    CASE c = "NUL" -> 0   [] c = "\n" -> 10  [] c = "\r" -> 13  [] c = " " -> 32
      [] c = "\"" -> 34   [] c = "," -> 44
      [] c = "0" -> 48    [] c = "1" -> 49   [] c = "2" -> 50   [] c = "3" -> 51
      [] c = "4" -> 52    [] c = "5" -> 53   [] c = "6" -> 54   [] c = "7" -> 55
      [] c = "8" -> 56    [] c = "9" -> 57
      [] c = "A" -> 65    [] c = "B" -> 66   [] c = "C" -> 67   [] c = "D" -> 68
      [] c = "a" -> 97    [] c = "d" -> 100  [] c = "e" -> 101  [] c = "i" -> 105
      [] c = "m" -> 109   [] c = "n" -> 110  [] c = "x" -> 120

\* buf.getvalue().encode("utf-8"): the bytes of the text, one per ASCII character
Encode(s) == [i \in DOMAIN s |-> Ord(s[i])]

\* line 101: the row written for record e
RowOfNameFirst(e) == <<e.name, e.id>>

RowOf(e) == <<e.id, e.name>>

----------------------------------------------------------------------------
(* The request handlers as a state machine *)

\* requests.get calls allowed per request in the model
MaxCalls == 3

Endpoints == {"json", "csv"}

NotCalled == [kind |-> "none"]
NoResponse == [status |-> 0]

\* JSONResponse(content={"employees": employees})
JsonResponse(emps) == [status |-> 200, content |-> [employees |-> emps]]

\* StreamingResponse(iter_csv(), media_type="text/csv", headers=headers): the
\* status line and headers, then the chunks as the generator yields them
StreamingResponse ==
    [status |-> 200, media_type |-> "text/csv",
     disposition |-> "attachment; filename=employees.csv",
     chunks |-> << >>, complete |-> FALSE]

\* the response the framework sends for an exception leaving the handler
ErrorResponsePartial(e, emps) ==
    IF e.type = "HTTPException" THEN JsonResponse(emps)
    ELSE [status |-> 500, detail |-> "Internal Server Error"]

ErrorResponse(e, emps) ==
    IF e.type = "HTTPException" THEN [status |-> e.status_code, detail |-> e.detail]
    ELSE [status |-> 500, detail |-> "Internal Server Error"]

FetchInit ==
    /\ upstream = [u \in URLs |-> Undecided]
    /\ pc = "idle"
    /\ ep = "none"
    /\ url = Null
    /\ employees = << >>
    /\ calls = << >>
    /\ resps = << >>
    /\ resp = Undecided
    /\ page_items = Null
    /\ exc = NoExc
    /\ buf = StringIO
    /\ it = 0
    /\ out = [e \in Endpoints |-> NoResponse]

Init ==
    /\ emp = Null
    /\ name_ret = NotCalled
    /\ FetchInit

\* lines 78-81 / 85-88: a request arrives and fetch_all_employees starts (lines
\* 43-45). Requests are handled one at a time, each endpoint once per behaviour.
Request(e) ==
    /\ pc = "idle"
    /\ out[e] = NoResponse
    /\ ep' = e
    /\ url' = Str(WORKABLE_BASE)
    /\ employees' = << >>
    /\ calls' = << >>
    /\ resps' = << >>
    /\ resp' = Undecided
    /\ page_items' = Null
    /\ exc' = NoExc
    /\ buf' = StringIO
    /\ it' = 0
    /\ pc' = "loop"
    /\ UNCHANGED <<upstream, out, nameVars>>

\* the answer of requests.get(u): the upstream's answer for a URL it knows (decided
\* when the URL is first asked for, the same on every later call), a
\* RequestException for anything that is not a URL
Answers(u) ==
    IF u.t = "str" /\ u.v \in URLs
    THEN IF upstream[u.v] = Undecided THEN Responses ELSE {upstream[u.v]}
    ELSE {Exc("Invalid URL")}

\* lines 46-56: the loop test passes, requests.get is called and its answer checked
RequestsGet ==
    /\ pc = "loop"
    /\ Truthy(url)
    /\ Len(calls) < MaxCalls
    /\ \E r \in Answers(url) :
        /\ upstream' = IF url.t = "str" /\ url.v \in URLs THEN [upstream EXCEPT ![url.v] = r] ELSE upstream
        /\ calls' = Append(calls, url)
        /\ resp' = r
        /\ exc' = StatusCheck(r)
        /\ pc' = IF StatusCheck(r) = NoExc THEN "parse" ELSE "raised"
    /\ UNCHANGED <<ep, url, employees, resps, page_items, buf, it, out, nameVars>>

\* lines 57-74: the page is parsed, its records appended and the next URL read
ProcessPage ==
    /\ pc = "parse"
    /\ LET parsed == RespJson(resp)
       IN  IF parsed.kind = "raise"
           THEN /\ exc' = PyException(parsed.type)
                /\ pc' = "raised"
                /\ UNCHANGED <<page_items, employees, url, resps>>
           ELSE LET data == parsed.v
                    items == Iterate(PageItems(data))
                IN  /\ page_items' = PageItems(data)
                    /\ IF items.kind = "raise"
                       THEN /\ exc' = PyException(items.type)
                            /\ pc' = "raised"
                            /\ UNCHANGED <<employees, url, resps>>
                       ELSE LET added == AppendRecords(items.v, employees)
                            IN  /\ employees' = added.acc
                                /\ IF added.kind = "raise"
                                   THEN /\ exc' = PyException(added.type)
                                        /\ pc' = "raised"
                                        /\ UNCHANGED <<url, resps>>
                                   ELSE /\ url' = NextUrl(data)
                                        /\ resps' = Append(resps, resp)
                                        /\ pc' = "loop"
                                        /\ exc' = exc
    /\ UNCHANGED <<upstream, ep, calls, resp, buf, it, out, nameVars>>

\* lines 46 and 75: the loop test fails and the accumulator is returned
ReturnEmployees ==
    /\ pc = "loop"
    /\ ~Truthy(url)
    /\ pc' = "fetched"
    /\ UNCHANGED <<upstream, ep, url, employees, calls, resps, resp, page_items, exc,
                   buf, it, out, nameVars>>

\* an exception leaves fetch_all_employees and the handler: the error response
RespondError ==
    /\ pc = "raised"
    /\ out' = [out EXCEPT ![ep] = ErrorResponse(exc, employees)]
    /\ pc' = "idle"
    /\ UNCHANGED <<upstream, ep, url, employees, calls, resps, resp, page_items, exc,
                   buf, it, nameVars>>

\* line 82
RespondJson ==
    /\ pc = "fetched"
    /\ ep = "json"
    /\ out' = [out EXCEPT ![ep] = JsonResponse(employees)]
    /\ pc' = "idle"
    /\ UNCHANGED <<upstream, ep, url, employees, calls, resps, resp, page_items, exc,
                   buf, it, nameVars>>

\* lines 106-107: the streaming response is returned, the generator not yet started
RespondStreaming ==
    /\ pc = "fetched"
    /\ ep = "csv"
    /\ out' = [out EXCEPT ![ep] = StreamingResponse]
    /\ pc' = "gen_start"
    /\ UNCHANGED <<upstream, ep, url, employees, calls, resps, resp, page_items, exc,
                   buf, it, nameVars>>

\* the chunk a yield hands to the response
Yield(b) == [out EXCEPT ![ep].chunks = Append(@, Encode(b.data))]

\* lines 93-97: the buffer is created, the header written and yielded
CsvHeader ==
    /\ pc = "gen_start"
    /\ LET b == Write(StringIO, CsvLine(<<Str(<<"i", "d">>), Str(<<"n", "a", "m", "e">>)>>))
       IN  /\ buf' = b
           /\ out' = Yield(b)
    /\ it' = 0
    /\ pc' = "gen_loop"
    /\ UNCHANGED <<upstream, ep, url, employees, calls, resps, resp, page_items, exc,
                   nameVars>>

\* lines 98-102 (103-104 after a row): the buffer is reset, the next record's row
\* written and yielded
CsvRow ==
    /\ pc = "gen_loop"
    /\ it < Len(employees)
    /\ LET b == Write(Reset(buf), CsvLine(RowOf(employees[it + 1])))
       IN  /\ buf' = b
           /\ out' = Yield(b)
    /\ it' = it + 1
    /\ UNCHANGED <<upstream, pc, ep, url, employees, calls, resps, resp, page_items,
                   exc, nameVars>>

\* lines 103-104 (98-99 for an empty list), then the for loop ends and so the body
CsvStop ==
    /\ pc = "gen_loop"
    /\ it = Len(employees)
    /\ buf' = Reset(buf)
    /\ out' = [out EXCEPT ![ep].complete = TRUE]
    /\ pc' = "idle"
    /\ UNCHANGED <<upstream, ep, url, employees, calls, resps, resp, page_items, exc,
                   it, nameVars>>

Next ==
    \/ \E e \in Endpoints : Request(e)
    \/ RequestsGet
    \/ ProcessPage
    \/ ReturnEmployees
    \/ RespondError
    \/ RespondJson
    \/ RespondStreaming
    \/ CsvHeader
    \/ CsvRow
    \/ CsvStop

Spec == Init /\ [][Next]_vars

----------------------------------------------------------------------------
(* _extract_name on its own: every record over the five fields it reads *)

NameKeys == {"full_name", "name", "first_name", "last_name", "id"}

Absent == [t |-> "absent"]

\* what a field may hold: null, "", text, text with surrounding blanks, a number
FieldValues == { Null, EmptyStr, Str(<<"A">>), Str(<<" ", "B", " ">>), Num(5) }

\* the dict holding the fields of f that are not Absent
DictOf(f) == Dict([k \in {k \in DOMAIN f : f[k] # Absent} |-> f[k]])

NameInputs ==
    { DictOf(f) : f \in [NameKeys -> FieldValues \cup {Absent}] }
    \cup { Str(<<"x">>), Null, Num(5), List(<< >>) }

InitName ==
    /\ emp \in NameInputs
    /\ name_ret = NotCalled
    /\ FetchInit

\* lines 27-39: one call of _extract_name(emp)
CallExtractName ==
    /\ name_ret = NotCalled
    /\ name_ret' = ExtractName(emp)
    /\ UNCHANGED <<emp, fetchVars>>

NextName == CallExtractName

SpecName == InitName /\ [][NextName]_vars

----------------------------------------------------------------------------
(* Claims about _extract_name (under SpecName) *)

\* field k is present and holds neither null nor the empty string
NonEmptyField(k) == IsDict(emp) /\ k \in DOMAIN emp.v /\ emp.v[k] \notin {Null, EmptyStr}

\* field k is present and holds text
TextField(k) == IsDict(emp) /\ k \in DOMAIN emp.v /\ emp.v[k].t = "str"

Blank(c) == c \in {" ", "\t", "\n", "\r"}

\* t is s without its leading and trailing whitespace
IsTrimOf(t, s) ==
    \E i \in 1..(Len(s) + 1) : \E j \in 0..Len(s) :
        /\ t = SubSeq(s, i, j)
        /\ \A k \in 1..(i - 1) : Blank(s[k])
        /\ \A k \in (j + 1)..Len(s) : Blank(s[k])
        /\ (i <= j) => (~Blank(s[i]) /\ ~Blank(s[j]))
        /\ (i > j) => (\A k \in 1..Len(s) : Blank(s[k]))

\* C5: _extract_name follows the fallback order, the first satisfied rule deciding:
\* a non-mapping gives ""; else a non-empty full_name is returned verbatim; else a
\* non-empty name; else a non-empty first_name gives first_name + " " + last_name
\* (a missing last_name taken as "") trimmed; else the id field if present, else "".
NameFallbackOrder ==
    LET full == NonEmptyField("full_name")
        name == NonEmptyField("name")
        first == NonEmptyField("first_name")
        addable == TextField("first_name")
                   /\ (TextField("last_name") \/ "last_name" \notin DOMAIN emp.v)
    IN  name_ret # NotCalled =>
          /\ (~IsDict(emp)) => (name_ret = Return(EmptyStr))
          /\ full => (name_ret = Return(emp.v["full_name"]))
          /\ (~full /\ name) => (name_ret = Return(emp.v["name"]))
          /\ (~full /\ ~name /\ first /\ addable) =>
                (/\ name_ret.kind = "return"
                 /\ name_ret.v.t = "str"
                 /\ IsTrimOf(name_ret.v.v,
                             emp.v["first_name"].v \o <<" ">> \o
                             (IF "last_name" \in DOMAIN emp.v
                              THEN emp.v["last_name"].v ELSE << >>)))
          /\ (IsDict(emp) /\ ~full /\ ~name /\ ~first) =>
                (name_ret = Return(IF "id" \in DOMAIN emp.v THEN emp.v["id"] ELSE EmptyStr))

\* C5 witness: full_name and name are empty, so first_name + " " + last_name is
\* built and trimmed
NameFallbackOrderWitness ==
    /\ IsDict(emp)
    /\ DOMAIN emp.v = NameKeys
    /\ emp.v["full_name"] = EmptyStr
    /\ emp.v["name"] = Null
    /\ emp.v["first_name"] = Str(<<" ", "B", " ">>)
    /\ emp.v["last_name"] = Str(<<"A">>)
    /\ name_ret = Return(Str(<<"B", " ", " ", "A">>))

\* C6: _extract_name is total: it raises nothing and returns a string, whatever is
\* absent, null or of a non-string type in the record.
NameTotal ==
    name_ret # NotCalled => name_ret.kind = "return" /\ name_ret.v.t = "str"

----------------------------------------------------------------------------
(* Claims about fetch_all_employees (under Spec) *)

\* the items an upstream page lists: its employees list, or the body if a bare list
UpstreamItems(r) ==
    LET d == r.body.data
    IN  IF d.t = "list" THEN d.v
        ELSE IF d.t = "dict" /\ "employees" \in DOMAIN d.v /\ d.v["employees"].t = "list"
             THEN d.v["employees"].v
        ELSE << >>

\* the items of pages 1..n, in page order and then item order
RECURSIVE ItemsUpTo(_)
ItemsUpTo(n) == IF n = 0 THEN << >> ELSE ItemsUpTo(n - 1) \o UpstreamItems(resps[n])

\* the paging.next value of an upstream page, Null when absent
PagingNext(r) ==
    LET d == r.body.data
    IN  IF /\ d.t = "dict"
           /\ "paging" \in DOMAIN d.v
           /\ d.v["paging"].t = "dict"
           /\ "next" \in DOMAIN d.v["paging"].v
        THEN d.v["paging"].v["next"]
        ELSE Null

\* the upstream call failed: no response, a 401, or another error status
CallFailed(r) == r.kind = "exc" \/ r.status_code >= 400

\* C1: the list fetch_all_employees returns is the concatenation, in page order and
\* item order, of one record per upstream item: nothing dropped, duplicated,
\* deduplicated or reordered, an absent id giving a record with a null id.
FetchReturnsEveryItem ==
    pc = "fetched" =>
        LET items == ItemsUpTo(Len(resps))
        IN  /\ Len(employees) = Len(items)
            /\ \A k \in 1..Len(items) :
                 /\ employees[k].id =
                      (IF "id" \in DOMAIN items[k].v THEN items[k].v["id"] ELSE Null)
                 /\ employees[k].name = ExtractName(items[k]).v

\* C1 witness: three pages of two items were fetched, one page listing the same
\* item twice and one page holding an item without id
FetchReturnsEveryItemWitness ==
    /\ pc = "fetched"
    /\ Len(resps) = 3
    /\ Len(employees) = 6
    /\ \E k \in 1..5 : employees[k] = employees[k + 1]
    /\ \E k \in 1..6 : employees[k].id = Null

UpstreamFailureMapped ==
    (pc \in {"parse", "raised"} /\ resp # Undecided) =>
        /\ resp.kind = "exc" =>
              exc = HTTPException(502, "Network error: " \o resp.text)
        /\ (resp.kind = "http" /\ resp.status_code = 401) =>
              (exc.type = "HTTPException" /\ exc.status_code = 401)
        /\ (resp.kind = "http" /\ resp.status_code # 401
                /\ ~(200 <= resp.status_code /\ resp.status_code <= 299)) =>
              /\ pc = "raised"
              /\ exc = HTTPException(502, "Upstream error: " \o ToString(resp.status_code))

\* C4: the calls of one fetch form a sequential chain: the first targets
\* WORKABLE_BASE, each later one the paging.next of the response before it and only
\* once that response is parsed; the loop stops at the first page without
\* paging.next, with no extra call, so k pages are fetched with k calls.
SequentialChain ==
    LET n == Len(calls)
    IN  /\ n >= 1 => calls[1] = Str(WORKABLE_BASE)
        /\ Len(resps) <= n
        /\ n <= Len(resps) + 1
        /\ \A i \in 2..n : calls[i] = PagingNext(resps[i - 1]) /\ calls[i] # Null
        /\ (pc = "loop" /\ Len(resps) = n /\ n >= 1 /\ PagingNext(resps[n]) = Null)
              => ~ENABLED RequestsGet
        /\ pc \in {"fetched", "gen_start", "gen_loop"} =>
              /\ n >= 1
              /\ Len(resps) = n
              /\ PagingNext(resps[n]) = Null

\* C4 witness: 3 pages of 2 items each were fetched with 3 calls, giving 6 records
SequentialChainWitness ==
    /\ pc = "fetched"
    /\ Len(calls) = 3
    /\ \A i \in 1..3 : Len(UpstreamItems(resps[i])) = 2
    /\ Len(employees) = 6

\* the page list the claim C9 names for a body
ClaimedPageItems(d) ==
    IF d.t = "dict" /\ "employees" \in DOMAIN d.v /\ d.v["employees"] # Null
    THEN d.v["employees"]
    ELSE IF d.t = "list" THEN d
    ELSE List(<< >>)

\* C9: the page's item list is the employees value of a mapping body, the whole body
\* if it is a bare list (then the only page), and empty in every other case; the
\* loop goes on only if the body is a mapping with a non-null paging.next.
PageItemsChoice ==
    [][ (pc = "parse" /\ pc' = "loop") =>
          LET d == resp.body.data
          IN  /\ page_items' = ClaimedPageItems(d)
              /\ Len(employees') = Len(employees) + Len(ClaimedPageItems(d).v)
              /\ Truthy(url') => (d.t = "dict" /\ PagingNext(resp) # Null
                                   /\ url' = PagingNext(resp))
              /\ d.t = "list" => ~Truthy(url') ]_vars

\* C9 witness: a bare list was taken whole as the page and the loop is about to end
PageItemsChoiceWitness ==
    /\ pc = "loop"
    /\ Len(resps) = 1
    /\ resp.body.data = List(<<ItemNoId, ItemA>>)
    /\ page_items = List(<<ItemNoId, ItemA>>)
    /\ Len(employees) = 2
    /\ url = Null

\* C10: whatever JSON the upstream returns (any status, any body shape, any item
\* shape), a request ends with local 200, 401 or 502 and with no other outcome.
OnlyThreeOutcomes ==
    (pc = "idle" /\ ep \in Endpoints /\ resp.kind = "http" /\ resp.body.json)
        => out[ep].status \in {200, 401, 502}

----------------------------------------------------------------------------
(* Claims about the presenters (under Spec): the CSV body is read back with a CSV
   reader and compared with the fetched records *)

CsvAlphabet ==
    { "NUL", "\n", "\r", " ", "\"", ",", "0", "1", "2", "3", "4", "5", "6", "7", "8",
      "9", "A", "B", "C", "D", "a", "d", "e", "i", "m", "n", "x" }

\* bytes.decode("utf-8") of ASCII bytes
Decode(bytes) == [i \in DOMAIN bytes |-> CHOOSE c \in CsvAlphabet : Ord(c) = bytes[i]]

\* the text after a line end at the head of s ("\r\n", "\r" or "\n")
AfterEol(s) ==
    IF Len(s) >= 2 /\ s[1] = "\r" /\ s[2] = "\n" THEN Tail(Tail(s)) ELSE Tail(s)

\* a CSV reader (comma, double quote, doubled quotes inside quoted fields): the rows
\* of text s, reading from state st with the field and row read so far
RECURSIVE ReadCsv(_, _, _, _, _)
ReadCsv(s, st, field, row, rows) ==
    IF s = << >> THEN
        IF st = "bol" THEN rows ELSE Append(rows, Append(row, field))
    ELSE LET c == Head(s)
             eol == c \in {"\r", "\n"}
         IN
         CASE st = "quoted" ->
                IF c = "\"" THEN ReadCsv(Tail(s), "quote", field, row, rows)
                ELSE ReadCsv(Tail(s), "quoted", Append(field, c), row, rows)
           [] st = "quote" /\ c = "\"" ->
                ReadCsv(Tail(s), "quoted", Append(field, c), row, rows)
           [] st \in {"bol", "start"} /\ c = "\"" ->
                ReadCsv(Tail(s), "quoted", field, row, rows)
           [] st = "bol" /\ eol ->
                ReadCsv(AfterEol(s), "bol", << >>, << >>, Append(rows, << >>))
           [] st # "bol" /\ eol ->
                ReadCsv(AfterEol(s), "bol", << >>, << >>, Append(rows, Append(row, field)))
           [] c = "," ->
                ReadCsv(Tail(s), "start", << >>, Append(row, field), rows)
           [] OTHER ->
                ReadCsv(Tail(s), "field", Append(field, c), row, rows)

CsvRows(bytes) == ReadCsv(Decode(bytes), "bol", << >>, << >>, << >>)

\* the number a decimal text denotes
RECURSIVE DecValue(_)
DecValue(t) ==
    IF t = << >> THEN 0
    ELSE 10 * DecValue(SubSeq(t, 1, Len(t) - 1))
         + (CHOOSE k \in 0..9 : Ord(t[Len(t)]) = 48 + k)

\* t is the text of value x in a CSV field: empty for null, the string itself, the
\* decimal digits of a number
IsTextOf(t, x) ==
    CASE x.t = "null" -> t = << >>
      [] x.t = "str"  -> t = x.v
      [] x.t = "num"  -> /\ t # << >>
                         /\ \A i \in DOMAIN t : Ord(t[i]) \in 48..57
                         /\ (Len(t) > 1 => t[1] # "0")
                         /\ DecValue(t) = x.v

\* row is the CSV rendering of record e: its id, then its name
IsRowOf(row, e) == Len(row) = 2 /\ IsTextOf(row[1], e.id) /\ IsTextOf(row[2], e.name)

\* all chunks of a streamed body, joined
RECURSIVE JoinChunks(_)
JoinChunks(cs) == IF cs = << >> THEN << >> ELSE Head(cs) \o JoinChunks(Tail(cs))

\* the CSV request is the one being handled and its response has started
Streaming == ep = "csv" /\ out["csv"].status = 200

\* C7: the CSV body is a chunk sequence: first the header row id,name alone, then
\* one chunk per record in the order of the fetched list, each holding that
\* record's row and nothing else, a null id written as an empty field; n records
\* give n+1 chunks.
CsvChunkSequence ==
    Streaming =>
        LET ch == out["csv"].chunks
        IN  /\ Len(ch) <= Len(employees) + 1
            /\ pc = "gen_start" => Len(ch) = 0
            /\ pc = "gen_loop" => Len(ch) = it + 1
            /\ out["csv"].complete => Len(ch) = Len(employees) + 1
            /\ Len(ch) >= 1 =>
                 ch[1] = <<105, 100, 44, 110, 97, 109, 101, 13, 10>>
            /\ \A i \in 2..Len(ch) :
                 /\ Len(CsvRows(ch[i])) = 1
                 /\ IsRowOf(CsvRows(ch[i])[1], employees[i - 1])
                 /\ ch[i][Len(ch[i]) - 1] = 13
                 /\ ch[i][Len(ch[i])] = 10
                 /\ employees[i - 1].id = Null => ch[i][1] = 44

\* C7 witness: a complete body of header plus 6 rows, one of them with a null id
CsvChunkSequenceWitness ==
    /\ Streaming
    /\ out["csv"].complete
    /\ Len(out["csv"].chunks) = 7
    /\ \E k \in 1..6 : employees[k].id = Null

\* both endpoints have answered in full
BothAnswered ==
    /\ out["json"].status # 0
    /\ out["csv"].status # 0
    /\ out["csv"].status = 200 => out["csv"].complete

\* the data rows read back from the complete CSV body
CsvDataRows == Tail(CsvRows(JoinChunks(out["csv"].chunks)))

\* the CSV endpoint has produced nothing while its fetch is running
NoOutputBeforeFetched ==
    (ep = "csv" /\ pc \in {"loop", "parse", "raised", "fetched"}) => out["csv"].status = 0

\* C8 as stated: both endpoints yield the same sequence of (id, name) pairs, fail
\* with the same status, and the CSV endpoint produces output only after the fetch.
JsonCsvSamePairs ==
    /\ NoOutputBeforeFetched
    /\ BothAnswered =>
         /\ out["json"].status = out["csv"].status
         /\ out["json"].status = 200 =>
              LET js == out["json"].content.employees
              IN  /\ Len(CsvDataRows) = Len(js)
                  /\ \A k \in 1..Len(js) :
                       /\ Len(CsvDataRows[k]) = 2
                       /\ Str(CsvDataRows[k][1]) = js[k].id
                       /\ Str(CsvDataRows[k][2]) = js[k].name

\* C8 amended: the CSV rows are, in the same order, the text of the JSON pairs: a
\* null id or name is the empty field, a string itself, a number its digits.
JsonCsvSamePairsAsText ==
    /\ NoOutputBeforeFetched
    /\ BothAnswered =>
         /\ out["json"].status = out["csv"].status
         /\ out["json"].status = 200 =>
              LET js == out["json"].content.employees
              IN  /\ Len(CsvDataRows) = Len(js)
                  /\ \A k \in 1..Len(js) : IsRowOf(CsvDataRows[k], js[k])

\* C8 witness: both endpoints answered 200 for the same 3 pages, 6 records, one of
\* them without id
JsonCsvSamePairsAsTextWitness ==
    /\ BothAnswered
    /\ out["json"].status = 200
    /\ Len(out["json"].content.employees) = 6
    /\ \E k \in 1..6 : out["json"].content.employees[k].id = Null
    /\ Len(out["csv"].chunks) = 7

====
